---- MODULE Spec2Model ----
(***************************************************************************)
(* SuperMall catalog: the persistence gateway (FirebaseService, which      *)
(* always runs on its localStorage fallback because isFirebaseAvailable    *)
(* is set to false on every path of initializeFirebase) and the Shop,      *)
(* Product and Offer services built on it.                                 *)
(*                                                                         *)
(* A stored document is a function from field names to values, so that     *)
(* the object spreads of the source ({...a, ...b}) are function merges     *)
(* and a patch may carry any key.  Identifiers are strings.  Prices are    *)
(* in cents and stock quantities in halves of a unit, so that 0.5 and 2.5   *)
(* are values of the model.  Timestamps are clock readings.                *)
(***************************************************************************)
EXTENDS Integers, Sequences, FiniteSets, TLC

VARIABLES
    localStorage,   \* collection name -> list of documents (the JSON lists)
    currentUser,    \* uid stored under supermall_current_user, or NoUser
    now,            \* the clock read by new Date()
    calls,          \* number of service calls made so far
    ret,            \* the last service call and what it gave back
    deleted,        \* history: <<collection, id>> of every successful delete
    tasks           \* the async calls in flight, each with its position

vars == <<localStorage, currentUser, now, calls, ret, deleted, tasks>>

(***************************************************************************)
(* Bounds of the model.                                                    *)
(***************************************************************************)
MaxCalls      == 3  \* service calls in one behaviour of Spec
MaxGuardCalls == 4  \* service calls in one behaviour of SpecGuard
MaxItems      == 3  \* documents in one collection

Collections == {"shops", "products", "offers"}

NoUser    == "none"
Uids      == {"u1"}
Undefined == "undefined"
Null      == "null"
NoError   == "ok"

(***************************************************************************)
(* JavaScript object helpers.                                              *)
(***************************************************************************)
Has(o, k) == k \in DOMAIN o

\* The keys whose values are strings; every other key holds a number, a
\* boolean or an object, which is never undefined, null or ''.
StringKeys == {"id", "name", "title", "description", "category", "shopId",
               "sortBy", "createdBy", "updatedBy", "deletedBy", "images"}
NumberKeys == {"floor", "price", "stock", "discount"}

\* {...a, ...b}
Spread(a, b) ==
    [k \in DOMAIN a \cup DOMAIN b |-> IF k \in DOMAIN b THEN b[k] ELSE a[k]]

Without(o, ks) == [k \in DOMAIN o \ ks |-> o[k]]

\* JSON.parse(JSON.stringify(o)) of one document: a key whose value is
\* undefined is not written.
JSONRoundTrip(o) ==
    LET kept == {k \in DOMAIN o : ~(k \in StringKeys /\ o[k] = Undefined)}
    IN  [k \in kept |-> o[k]]

\* String.prototype.trim on the string literals of the model.
trim(s) ==
    CASE s = "   " -> ""
      [] s = " A " -> "A"
      [] OTHER     -> s

Ids(items) == {items[i].id : i \in 1..Len(items)}

\* Array.prototype.sort with a numeric comparator (a, b) => key(a) - key(b):
\* the sort is stable; keys[i] is the key of items[i].
sort(items, keys) ==
    LET n == Len(items)
        pos(i) == 1 + Cardinality({j \in 1..n :
                        keys[j] < keys[i] \/ (keys[j] = keys[i] /\ j < i)})
    IN  [p \in 1..n |-> items[CHOOSE i \in 1..n : pos(i) = p]]

\* A whole number of units as a stock quantity.
Whole(n) == 2 * n

\* Number.isInteger on a stock quantity.
isInteger(quantity) == quantity % 2 = 0

\* Math.min(...values) and Math.max(...values) on a non-empty set of numbers.
Min(values) == CHOOSE v \in values : \A w \in values : v <= w
Max(values) == CHOOSE v \in values : \A w \in values : v >= w

\* !o[k]
Falsy(o, k) ==
    \/ ~Has(o, k)
    \/ k \in StringKeys /\ o[k] \in {"", Undefined, Null}
    \/ k \in NumberKeys /\ o[k] = 0
    \/ k \in {"includeInactive", "includeExpired", "isActive"} /\ o[k] = FALSE

(***************************************************************************)
(* Session context.                                                        *)
(***************************************************************************)
getCurrentUserId == IF currentUser = NoUser THEN "anonymous" ELSE currentUser

(***************************************************************************)
(* FirebaseService, localStorage branch.                                   *)
(***************************************************************************)
\* Date.now().toString(36) + Math.random().toString(36): a value no earlier
\* call produced.  Documents are never removed, so the length of the list
\* grows with every create and names a new id each time.
generateId(items) == "k" \o ToString(Len(items))

\* A variant of createItem in which the caller's data is spread last.
createItemDataLast(items, data) ==
    JSONRoundTrip(Spread([id |-> generateId(items), createdAt |-> now], data))

\* The document create() appends: {...data, id: generateId(), createdAt}.
createItem(items, data) ==
    JSONRoundTrip(Spread(data, [id |-> generateId(items), createdAt |-> now]))

create(items, data) == Append(items, createItem(items, data))

\* findIndex(item => item.id === id); 0 stands for -1.
findIndex(items, id) ==
    IF \E i \in 1..Len(items) : items[i].id = id
    THEN CHOOSE i \in 1..Len(items) :
            /\ items[i].id = id
            /\ \A j \in 1..(i - 1) : items[j].id # id
    ELSE 0

\* read(collection, id) with an id: the first match, or null.
read(items, id) ==
    IF findIndex(items, id) = 0 THEN Null ELSE items[findIndex(items, id)]

\* update(collection, id, data) when the index is found.
update(items, id, data) ==
    [items EXCEPT ![findIndex(items, id)] =
        JSONRoundTrip(Spread(Spread(@, data), [updatedAt |-> now]))]

\* One key of query(): priceRange is a bound test (!min || price >= min,
\* !max || price <= max: a bound that is undefined or 0 is falsy), every
\* other key strict equality with the document's own field (undefined when
\* absent).
matches(item, key, value) ==
    IF key = "priceRange"
    THEN /\ \/ ~Has(value, "min")
            \/ value.min = 0
            \/ (Has(item, "price") /\ item.price >= value.min)
         /\ \/ ~Has(value, "max")
            \/ value.max = 0
            \/ (Has(item, "price") /\ item.price <= value.max)
    ELSE Has(item, key) /\ item[key] = value

\* query(collection, filters).  A filter whose value is undefined, null or
\* '' is skipped; every other key of the filter object is applied.
query(items, filters) ==
    LET applied == {k \in DOMAIN filters :
                        ~(k \in StringKeys /\ filters[k] \in {Undefined, Null, ""})}
        Keep(item) == \A k \in applied : matches(item, k, filters[k])
    IN  SelectSeq(items, Keep)

(***************************************************************************)
(* The state after construction: initializeDemoData.                       *)
(***************************************************************************)
demoShops == <<
    [id |-> "1", name |-> "Rural Electronics Hub",
     description |-> "Best electronic devices from rural manufacturers",
     category |-> "Electronics", floor |-> 1,
     location |-> [address |-> "123 Main St, Rural Town"],
     contact |-> [phone |-> "+1-555-0123", email |-> "info@ruralelectronics.com"],
     images |-> "photo-1441986300917",
     isActive |-> TRUE, createdAt |-> 0],
    [id |-> "2", name |-> "Village Textiles",
     description |-> "Handwoven textiles and traditional clothing",
     category |-> "Clothing", floor |-> 2,
     location |-> [address |-> "456 Village Rd, Rural Town"],
     contact |-> [phone |-> "+1-555-0456", email |-> "orders@villagetextiles.com"],
     images |-> "photo-1441984904996",
     isActive |-> TRUE, createdAt |-> 0] >>

demoProducts == <<
    [id |-> "1", name |-> "Organic Smartphone Case",
     description |-> "Eco-friendly smartphone case made from bamboo fiber",
     price |-> 2999, category |-> "Electronics", shopId |-> "1",
     images |-> "photo-1601593346740",
     specifications |-> [Material |-> "Bamboo Fiber", Weight |-> "50g"],
     stock |-> Whole(50), isActive |-> TRUE, createdAt |-> 0],
    [id |-> "2", name |-> "Handwoven Cotton Shirt",
     description |-> "Traditional handwoven cotton shirt with modern design",
     price |-> 4500, category |-> "Clothing", shopId |-> "2",
     images |-> "photo-1521572163474",
     specifications |-> [Material |-> "100% Cotton", Size |-> "M/L/XL"],
     stock |-> Whole(25), isActive |-> TRUE, createdAt |-> 0] >>

\* validTo is Date.now() + 30 days.
ThirtyDays == 30
demoOffers == <<
    [id |-> "1", title |-> "Summer Sale - Electronics",
     description |-> "20% off on all electronic items",
     discount |-> 20, shopId |-> "1", productIds |-> <<"1">>,
     validFrom |-> 0, validTo |-> 0 + ThirtyDays,
     isActive |-> TRUE, createdAt |-> 0] >>

initializeDemoData ==
    [shops |-> demoShops, products |-> demoProducts, offers |-> demoOffers]

NoCall == [op |-> "none", id |-> "", arg |-> Null, err |-> NoError, val |-> Null]

Init ==
    /\ localStorage = initializeDemoData
    /\ currentUser \in Uids \cup {NoUser}
    /\ now = 0
    /\ calls = 0
    /\ ret = NoCall
    /\ deleted = {}
    /\ tasks = <<>>

(***************************************************************************)
(* Helpers of the services.                                                *)
(***************************************************************************)
\* String.prototype.localeCompare on the names, titles and categories of the
\* model: the position of the string in collation order.
Collation == << "Clothing", "Electronics", "Handwoven Cotton Shirt",
                "Organic Smartphone Case", "Rural Electronics Hub",
                "Solar Lantern", "Summer Sale - Electronics",
                "Village Textiles", "Winter Clearance", "Zari Crafts" >>
localeRank(str) == CHOOSE i \in 1..Len(Collation) : Collation[i] = str

\* isValidEmail: /^[^\s@]+@[^\s@]+\.[^\s@]+$/ on the addresses of the model.
isValidEmail(email) ==
    email \in {"info@ruralelectronics.com", "orders@villagetextiles.com",
               "hello@zari.in"}

\* isValidPhone: /^[\+]?[1-9][\d]{0,15}$/ after removing blanks, hyphens
\* and parentheses, on the numbers of the model.
isValidPhone(phone) == phone \in {"+1-555-0123", "+1-555-0456", "+91 98765 43210"}

\* o.stats?.<counter> || 0
statOf(o, counter) ==
    IF Has(o, "stats") /\ Has(o.stats, counter) THEN o.stats[counter] ELSE 0

\* data[field] === undefined || data[field] === null
Absent(o, k) == ~Has(o, k) \/ (k \in StringKeys /\ o[k] \in {Undefined, Null})

\* The first required field that is missing, as validate*Data reports it:
\* the shop and offer validators test !data[field], the product validator
\* tests for undefined and null only.
firstMissing(data, requiredFields, strict) ==
    LET bad == {i \in 1..Len(requiredFields) :
                    IF strict THEN Absent(data, requiredFields[i])
                    ELSE Falsy(data, requiredFields[i])}
    IN  IF bad = {} THEN ""
        ELSE requiredFields[CHOOSE i \in bad : \A j \in bad : i <= j]

Call(op, id, arg, err, val) ==
    [op |-> op, id |-> id, arg |-> arg, err |-> err, val |-> val]

\* What a service call leaves alone besides the store.
Returns(r) ==
    /\ calls' = calls + 1
    /\ ret' = r
    /\ UNCHANGED <<currentUser, now, tasks>>

Store(collection, items) ==
    localStorage' = [localStorage EXCEPT ![collection] = items]

(***************************************************************************)
(* ShopService.                                                            *)
(***************************************************************************)
validateShopData(shopData, isUpdate) ==
    LET requiredFields ==
            IF isUpdate THEN <<>>
            ELSE <<"name", "description", "category", "floor", "contact">>
        missing == firstMissing(shopData, requiredFields, FALSE)
    IN  IF missing # "" THEN missing \o " is required"
        ELSE IF ~Falsy(shopData, "name") /\ Len(trim(shopData.name)) < 2
        THEN "Shop name must be at least 2 characters long"
        ELSE IF ~Falsy(shopData, "description")
                /\ Len(trim(shopData.description)) < 10
        THEN "Shop description must be at least 10 characters long"
        ELSE IF ~Falsy(shopData, "floor")
                /\ (shopData.floor < 1 \/ shopData.floor > 10)
        THEN "Floor must be between 1 and 10"
        ELSE IF Has(shopData, "contact") /\ Has(shopData.contact, "email")
                /\ shopData.contact.email # ""
                /\ ~isValidEmail(shopData.contact.email)
        THEN "Invalid email format"
        ELSE IF Has(shopData, "contact") /\ Has(shopData.contact, "phone")
                /\ shopData.contact.phone # ""
                /\ ~isValidPhone(shopData.contact.phone)
        THEN "Invalid phone number format"
        ELSE NoError

sortShops(shops, sortBy) ==
    LET n == Len(shops)
    IN  CASE sortBy = "name" ->
                sort(shops, [i \in 1..n |-> localeRank(shops[i].name)])
          [] sortBy = "category" ->
                sort(shops, [i \in 1..n |-> localeRank(shops[i].category)])
          [] sortBy = "floor" ->
                sort(shops, [i \in 1..n |-> shops[i].floor])
          [] sortBy = "newest" ->
                sort(shops, [i \in 1..n |-> 0 - shops[i].createdAt])
          [] sortBy = "oldest" ->
                sort(shops, [i \in 1..n |-> shops[i].createdAt])
          [] sortBy = "views" ->
                sort(shops, [i \in 1..n |-> 0 - statOf(shops[i], "views")])
          [] sortBy = "rating" ->
                sort(shops, [i \in 1..n |-> 0 - statOf(shops[i], "rating")])
          [] OTHER -> shops

\* The filter object the three getAll operations hand to query():
\* {...filters, isActive: filters.includeInactive ? undefined : true}.
\* A key set to undefined is a key query() skips, so it is left out.
activeFilter(filters) ==
    IF ~Falsy(filters, "includeInactive")
    THEN Without(filters, {"isActive"})
    ELSE Spread(filters, [isActive |-> TRUE])

\* The list getShops(filters) returns.
getShops(filters) ==
    sortShops(query(localStorage.shops, activeFilter(filters)),
              IF Falsy(filters, "sortBy") THEN "name" ELSE filters.sortBy)

zeroShopStats ==
    [totalProducts |-> 0, totalOffers |-> 0, views |-> 0, rating |-> 0,
     reviews |-> 0]

\* A variant of createShop in which the caller's data is spread last.
createShopDataLast(shopData) ==
    LET err  == validateShopData(shopData, FALSE)
        doc  == Spread([isActive |-> TRUE,
                        createdBy |-> getCurrentUserId,
                        stats |-> zeroShopStats], shopData)
    IN  IF err # NoError
        THEN /\ Returns(Call("createShop", "", shopData, err, Null))
             /\ UNCHANGED <<localStorage, deleted>>
        ELSE /\ Len(localStorage.shops) < MaxItems
             /\ Store("shops", create(localStorage.shops, doc))
             /\ Returns(Call("createShop", "", shopData, NoError,
                             generateId(localStorage.shops)))
             /\ UNCHANGED deleted

createShop(shopData) ==
    LET err  == validateShopData(shopData, FALSE)
        doc  == Spread(shopData, [isActive |-> TRUE,
                                  createdBy |-> getCurrentUserId,
                                  stats |-> zeroShopStats])
    IN  IF err # NoError
        THEN /\ Returns(Call("createShop", "", shopData, err, Null))
             /\ UNCHANGED <<localStorage, deleted>>
        ELSE /\ Len(localStorage.shops) < MaxItems
             /\ Store("shops", create(localStorage.shops, doc))
             /\ Returns(Call("createShop", "", shopData, NoError,
                             generateId(localStorage.shops)))
             /\ UNCHANGED deleted

\* The store after increment*Views / trackOfferClick: the counter is read
\* from the nested stats object and written under a dotted key.
increment(collection, id, counter, stamp) ==
    LET items == localStorage[collection]
        doc   == read(items, id)
    IN  IF findIndex(items, id) = 0 THEN items
        ELSE update(items, id,
                    (("stats." \o counter) :> (statOf(doc, counter) + 1))
                    @@ (("stats." \o stamp) :> now))

getShopById(shopId) ==
    LET shop == read(localStorage.shops, shopId)
    IN  IF findIndex(localStorage.shops, shopId) = 0
        THEN /\ Returns(Call("getShopById", shopId, Null, "Shop not found", Null))
             /\ UNCHANGED <<localStorage, deleted>>
        ELSE /\ Store("shops", increment("shops", shopId, "views", "lastViewed"))
             /\ Returns(Call("getShopById", shopId, Null, NoError, shop))
             /\ UNCHANGED deleted

\* A variant of updateShop that writes the patch before it validates it.
updateShopWriteFirst(shopId, updateData) ==
    LET err == validateShopData(updateData, TRUE)
    IN  IF findIndex(localStorage.shops, shopId) = 0
        THEN /\ Returns(Call("updateShop", shopId, updateData,
                             "Document not found", Null))
             /\ UNCHANGED <<localStorage, deleted>>
        ELSE /\ Store("shops", update(localStorage.shops, shopId,
                        Spread(updateData, [updatedBy |-> getCurrentUserId])))
             /\ Returns(Call("updateShop", shopId, updateData, err, Null))
             /\ UNCHANGED deleted

updateShop(shopId, updateData) ==
    LET err == validateShopData(updateData, TRUE)
    IN  IF err # NoError
        THEN /\ Returns(Call("updateShop", shopId, updateData, err, Null))
             /\ UNCHANGED <<localStorage, deleted>>
        ELSE IF findIndex(localStorage.shops, shopId) = 0
        THEN /\ Returns(Call("updateShop", shopId, updateData,
                             "Document not found", Null))
             /\ UNCHANGED <<localStorage, deleted>>
        ELSE /\ Store("shops", update(localStorage.shops, shopId,
                        Spread(updateData, [updatedBy |-> getCurrentUserId])))
             /\ Returns(Call("updateShop", shopId, updateData, NoError, Null))
             /\ UNCHANGED deleted

softDelete == [isActive |-> FALSE, deletedAt |-> now, deletedBy |-> getCurrentUserId]

\* The message of the error deleteShop throws for a shop with products.
Conflict ==
    "Cannot delete shop with existing products. Please remove all products first."

\* A variant of the product check that counts active products only.
activeProductsOfShop(shopId) ==
    query(localStorage.products, [shopId |-> shopId, isActive |-> TRUE])

\* "Check if shop has products": every product document of the shop.
productsOfShop(shopId) == query(localStorage.products, [shopId |-> shopId])

deleteShop(shopId) ==
    LET products == productsOfShop(shopId)
    IN  IF Len(products) > 0
        THEN /\ Returns(Call("deleteShop", shopId, Null, Conflict, Null))
             /\ UNCHANGED <<localStorage, deleted>>
        ELSE IF findIndex(localStorage.shops, shopId) = 0
        THEN /\ Returns(Call("deleteShop", shopId, Null, "Document not found", Null))
             /\ UNCHANGED <<localStorage, deleted>>
        ELSE /\ Store("shops", update(localStorage.shops, shopId, softDelete))
             /\ Returns(Call("deleteShop", shopId, Null, NoError, Null))
             /\ deleted' = deleted \cup {<<"shops", shopId>>}

(***************************************************************************)
(* ProductService.                                                         *)
(***************************************************************************)
validateProductData(productData, isUpdate) ==
    LET requiredFields ==
            IF isUpdate THEN <<>>
            ELSE <<"name", "description", "price", "category", "shopId", "stock">>
        missing == firstMissing(productData, requiredFields, TRUE)
    IN  IF missing # "" THEN missing \o " is required"
        ELSE IF ~Falsy(productData, "name") /\ Len(trim(productData.name)) < 2
        THEN "Product name must be at least 2 characters long"
        ELSE IF ~Falsy(productData, "description")
                /\ Len(trim(productData.description)) < 10
        THEN "Product description must be at least 10 characters long"
        ELSE IF Has(productData, "price") /\ productData.price < 0
        THEN "Price must be a valid positive number"
        ELSE IF Has(productData, "stock")
                /\ (productData.stock < 0 \/ ~isInteger(productData.stock))
        THEN "Stock must be a valid non-negative integer"
        ELSE NoError

sortProducts(products, sortBy) ==
    LET n == Len(products)
    IN  CASE sortBy = "name" ->
                sort(products, [i \in 1..n |-> localeRank(products[i].name)])
          [] sortBy = "price_low" ->
                sort(products, [i \in 1..n |-> products[i].price])
          [] sortBy = "price_high" ->
                sort(products, [i \in 1..n |-> 0 - products[i].price])
          [] sortBy = "category" ->
                sort(products, [i \in 1..n |-> localeRank(products[i].category)])
          [] sortBy = "newest" ->
                sort(products, [i \in 1..n |-> 0 - products[i].createdAt])
          [] sortBy = "oldest" ->
                sort(products, [i \in 1..n |-> products[i].createdAt])
          [] sortBy = "stock" ->
                sort(products, [i \in 1..n |-> 0 - products[i].stock])
          [] sortBy = "views" ->
                sort(products, [i \in 1..n |-> 0 - statOf(products[i], "views")])
          [] sortBy = "rating" ->
                sort(products, [i \in 1..n |-> 0 - statOf(products[i], "rating")])
          [] OTHER -> products

\* The list getProducts(filters) returns.
getProducts(filters) ==
    sortProducts(query(localStorage.products, activeFilter(filters)),
                 IF Falsy(filters, "sortBy") THEN "name" ELSE filters.sortBy)

zeroProductStats == [views |-> 0, purchases |-> 0, rating |-> 0, reviews |-> 0]

createProduct(productData) ==
    LET err == validateProductData(productData, FALSE)
        doc == Spread(productData, [isActive |-> TRUE,
                                    createdBy |-> getCurrentUserId,
                                    stats |-> zeroProductStats])
    IN  IF err # NoError
        THEN /\ Returns(Call("createProduct", "", productData, err, Null))
             /\ UNCHANGED <<localStorage, deleted>>
        ELSE /\ Len(localStorage.products) < MaxItems
             /\ Store("products", create(localStorage.products, doc))
             /\ Returns(Call("createProduct", "", productData, NoError,
                             generateId(localStorage.products)))
             /\ UNCHANGED deleted

getProductById(productId) ==
    LET product == read(localStorage.products, productId)
    IN  IF findIndex(localStorage.products, productId) = 0
        THEN /\ Returns(Call("getProductById", productId, Null,
                             "Product not found", Null))
             /\ UNCHANGED <<localStorage, deleted>>
        ELSE /\ Store("products",
                      increment("products", productId, "views", "lastViewed"))
             /\ Returns(Call("getProductById", productId, Null, NoError, product))
             /\ UNCHANGED deleted

updateProduct(productId, updateData) ==
    LET err == validateProductData(updateData, TRUE)
    IN  IF err # NoError
        THEN /\ Returns(Call("updateProduct", productId, updateData, err, Null))
             /\ UNCHANGED <<localStorage, deleted>>
        ELSE IF findIndex(localStorage.products, productId) = 0
        THEN /\ Returns(Call("updateProduct", productId, updateData,
                             "Document not found", Null))
             /\ UNCHANGED <<localStorage, deleted>>
        ELSE /\ Store("products", update(localStorage.products, productId,
                        Spread(updateData, [updatedBy |-> getCurrentUserId])))
             /\ Returns(Call("updateProduct", productId, updateData, NoError, Null))
             /\ UNCHANGED deleted

deleteProduct(productId) ==
    IF findIndex(localStorage.products, productId) = 0
    THEN /\ Returns(Call("deleteProduct", productId, Null,
                         "Document not found", Null))
         /\ UNCHANGED <<localStorage, deleted>>
    ELSE /\ Store("products", update(localStorage.products, productId, softDelete))
         /\ Returns(Call("deleteProduct", productId, Null, NoError, Null))
         /\ deleted' = deleted \cup {<<"products", productId>>}

\* The products the ids resolve to, in the order of the ids: read() of each
\* id, without the nulls.
validProducts(productIds) ==
    LET found(i) == findIndex(localStorage.products, productIds[i]) # 0
        hits == SelectSeq([i \in 1..Len(productIds) |-> i], found)
    IN  [j \in 1..Len(hits) |-> read(localStorage.products, productIds[hits[j]])]

\* 'Maximum 4 products can be compared at once'
MaxComparable == 4

\* A variant of the upper limit that lets five ids through.
tooManyAboveFive(productIds) == Len(productIds) > MaxComparable + 1

\* productIds.length > 4
tooMany(productIds) == Len(productIds) > MaxComparable

\* The comparison object, without the average price and the features.
comparison(products) ==
    LET n == Len(products)
    IN  [products   |-> products,
         priceRange |-> [min |-> Min({products[i].price : i \in 1..n}),
                         max |-> Max({products[i].price : i \in 1..n})],
         categories |-> {products[i].category : i \in 1..n},
         shops      |-> {products[i].shopId : i \in 1..n},
         inStock    |-> Cardinality({i \in 1..n : products[i].stock > 0}),
         outOfStock |-> Cardinality({i \in 1..n : products[i].stock = 0}),
         comparedBy |-> getCurrentUserId]

compareProducts(productIds) ==
    LET err == IF Len(productIds) < 2
               THEN "At least 2 products are required for comparison"
               ELSE IF tooMany(productIds)
               THEN "Maximum 4 products can be compared at once"
               ELSE IF Len(validProducts(productIds)) < 2
               THEN "At least 2 valid products are required for comparison"
               ELSE NoError
    IN  /\ Returns(Call("compareProducts", "", productIds, err,
                        IF err = NoError
                        THEN comparison(validProducts(productIds)) ELSE Null))
        /\ UNCHANGED <<localStorage, deleted>>

updateStock(productId, quantity) ==
    IF quantity < 0
    THEN /\ Returns(Call("updateStock", productId, quantity,
                         "Stock quantity cannot be negative", Null))
         /\ UNCHANGED <<localStorage, deleted>>
    ELSE IF findIndex(localStorage.products, productId) = 0
    THEN /\ Returns(Call("updateStock", productId, quantity,
                         "Document not found", Null))
         /\ UNCHANGED <<localStorage, deleted>>
    ELSE /\ Store("products", update(localStorage.products, productId,
                    [stock |-> quantity, stockUpdatedAt |-> now,
                     stockUpdatedBy |-> getCurrentUserId]))
         /\ Returns(Call("updateStock", productId, quantity, NoError, Null))
         /\ UNCHANGED deleted

(***************************************************************************)
(* OfferService.                                                           *)
(***************************************************************************)
validateOfferData(offerData, isUpdate) ==
    LET requiredFields ==
            IF isUpdate THEN <<>>
            ELSE <<"title", "description", "discount", "shopId",
                   "validFrom", "validTo">>
        missing == firstMissing(offerData, requiredFields, FALSE)
    IN  IF missing # "" THEN missing \o " is required"
        ELSE IF ~Falsy(offerData, "title") /\ Len(trim(offerData.title)) < 3
        THEN "Offer title must be at least 3 characters long"
        ELSE IF ~Falsy(offerData, "description")
                /\ Len(trim(offerData.description)) < 10
        THEN "Offer description must be at least 10 characters long"
        ELSE IF Has(offerData, "discount")
                /\ (offerData.discount < 0 \/ offerData.discount > 100)
        THEN "Discount must be between 0 and 100 percent"
        ELSE IF Has(offerData, "validFrom") /\ Has(offerData, "validTo")
                /\ offerData.validFrom >= offerData.validTo
        THEN "Valid from date must be before valid to date"
        ELSE IF Has(offerData, "validFrom") /\ Has(offerData, "validTo")
                /\ offerData.validTo <= now
        THEN "Valid to date must be in the future"
        ELSE NoError

sortOffers(offers, sortBy) ==
    LET n == Len(offers)
    IN  CASE sortBy = "title" ->
                sort(offers, [i \in 1..n |-> localeRank(offers[i].title)])
          [] sortBy = "discount_high" ->
                sort(offers, [i \in 1..n |-> 0 - offers[i].discount])
          [] sortBy = "discount_low" ->
                sort(offers, [i \in 1..n |-> offers[i].discount])
          [] sortBy = "newest" ->
                sort(offers, [i \in 1..n |-> 0 - offers[i].createdAt])
          [] sortBy = "oldest" ->
                sort(offers, [i \in 1..n |-> offers[i].createdAt])
          [] sortBy = "expiry" ->
                sort(offers, [i \in 1..n |-> offers[i].validTo])
          [] sortBy = "views" ->
                sort(offers, [i \in 1..n |-> 0 - statOf(offers[i], "views")])
          [] sortBy = "clicks" ->
                sort(offers, [i \in 1..n |-> 0 - statOf(offers[i], "clicks")])
          [] OTHER -> offers

\* A variant of the validity test that looks at validFrom only.
inWindowFromOnly(offer) ==
    Has(offer, "validFrom") /\ now >= offer.validFrom

\* now >= validFrom && now <= validTo
inWindow(offer) ==
    /\ Has(offer, "validFrom") /\ now >= offer.validFrom
    /\ Has(offer, "validTo") /\ now <= offer.validTo

\* The list getOffers(filters) returns.
getOffers(filters) ==
    LET offers == query(localStorage.offers, activeFilter(filters))
        validOffers == IF ~Falsy(filters, "includeExpired") THEN offers
                       ELSE SelectSeq(offers, inWindow)
    IN  sortOffers(validOffers,
                   IF Falsy(filters, "sortBy") THEN "newest" ELSE filters.sortBy)

\* validTo < now
isExpired(offer) == Has(offer, "validTo") /\ offer.validTo < now

\* The list getExpiredOffers() returns.
getExpiredOffers == SelectSeq(getOffers([includeExpired |-> TRUE]), isExpired)

zeroOfferStats == [views |-> 0, clicks |-> 0, conversions |-> 0]

createOffer(offerData) ==
    LET err == validateOfferData(offerData, FALSE)
        doc == Spread(offerData, [isActive |-> TRUE,
                                  createdBy |-> getCurrentUserId,
                                  stats |-> zeroOfferStats])
    IN  IF err # NoError
        THEN /\ Returns(Call("createOffer", "", offerData, err, Null))
             /\ UNCHANGED <<localStorage, deleted>>
        ELSE /\ Len(localStorage.offers) < MaxItems
             /\ Store("offers", create(localStorage.offers, doc))
             /\ Returns(Call("createOffer", "", offerData, NoError,
                             generateId(localStorage.offers)))
             /\ UNCHANGED deleted

getOfferById(offerId) ==
    LET offer == read(localStorage.offers, offerId)
    IN  IF findIndex(localStorage.offers, offerId) = 0
        THEN /\ Returns(Call("getOfferById", offerId, Null, "Offer not found", Null))
             /\ UNCHANGED <<localStorage, deleted>>
        ELSE /\ Store("offers", increment("offers", offerId, "views", "lastViewed"))
             /\ Returns(Call("getOfferById", offerId, Null, NoError, offer))
             /\ UNCHANGED deleted

\* A variant of updateOffer that also tests a new validTo against the
\* validFrom of the stored offer.
updateOfferOrdered(offerId, updateData) ==
    LET err    == validateOfferData(updateData, TRUE)
        i      == findIndex(localStorage.offers, offerId)
        stored == localStorage.offers[i]
    IN  IF err # NoError
        THEN /\ Returns(Call("updateOffer", offerId, updateData, err, Null))
             /\ UNCHANGED <<localStorage, deleted>>
        ELSE IF i = 0
        THEN /\ Returns(Call("updateOffer", offerId, updateData,
                             "Document not found", Null))
             /\ UNCHANGED <<localStorage, deleted>>
        ELSE IF Has(updateData, "validTo") /\ ~Has(updateData, "validFrom")
                /\ stored.validFrom >= updateData.validTo
        THEN /\ Returns(Call("updateOffer", offerId, updateData,
                             "Valid from date must be before valid to date", Null))
             /\ UNCHANGED <<localStorage, deleted>>
        ELSE /\ Store("offers", update(localStorage.offers, offerId,
                        Spread(updateData, [updatedBy |-> getCurrentUserId])))
             /\ Returns(Call("updateOffer", offerId, updateData, NoError, Null))
             /\ UNCHANGED deleted

updateOffer(offerId, updateData) ==
    LET err == validateOfferData(updateData, TRUE)
    IN  IF err # NoError
        THEN /\ Returns(Call("updateOffer", offerId, updateData, err, Null))
             /\ UNCHANGED <<localStorage, deleted>>
        ELSE IF findIndex(localStorage.offers, offerId) = 0
        THEN /\ Returns(Call("updateOffer", offerId, updateData,
                             "Document not found", Null))
             /\ UNCHANGED <<localStorage, deleted>>
        ELSE /\ Store("offers", update(localStorage.offers, offerId,
                        Spread(updateData, [updatedBy |-> getCurrentUserId])))
             /\ Returns(Call("updateOffer", offerId, updateData, NoError, Null))
             /\ UNCHANGED deleted

deleteOffer(offerId) ==
    IF findIndex(localStorage.offers, offerId) = 0
    THEN /\ Returns(Call("deleteOffer", offerId, Null, "Document not found", Null))
         /\ UNCHANGED <<localStorage, deleted>>
    ELSE /\ Store("offers", update(localStorage.offers, offerId, softDelete))
         /\ Returns(Call("deleteOffer", offerId, Null, NoError, Null))
         /\ deleted' = deleted \cup {<<"offers", offerId>>}

applyOfferToProducts(offerId, productIds) ==
    IF findIndex(localStorage.offers, offerId) = 0
    THEN /\ Returns(Call("applyOfferToProducts", offerId, productIds,
                         "Document not found", Null))
         /\ UNCHANGED <<localStorage, deleted>>
    ELSE /\ Store("offers", update(localStorage.offers, offerId,
                    [productIds |-> productIds, appliedAt |-> now,
                     appliedBy |-> getCurrentUserId]))
         /\ Returns(Call("applyOfferToProducts", offerId, productIds, NoError, Null))
         /\ UNCHANGED deleted

\* Never throws: a missing offer is skipped and a failure is only logged.
trackOfferClick(offerId) ==
    /\ Store("offers", increment("offers", offerId, "clicks", "lastClicked"))
    /\ Returns(Call("trackOfferClick", offerId, Null, NoError, Null))
    /\ UNCHANGED deleted

(***************************************************************************)
(* The inputs of the calls.                                                *)
(***************************************************************************)
\* Ids a caller passes: the first demo record, the first record the
\* collection creates, and an id the collection does not hold.
ShopIds    == {"1", "k2", "none"}
ProductIds == {"1", "k2", "none"}
OfferIds   == {"1", "k1", "none"}

\* Fields a caller may put into its data although the service assigns them.
assignedFields ==
    [id |-> "1", isActive |-> FALSE, createdBy |-> "mallory", createdAt |-> 7,
     stats |-> [views |-> 5, clicks |-> 5]]

validShop ==
    [name |-> "Zari Crafts", description |-> "Handmade zari embroidery",
     category |-> "Clothing", floor |-> 3,
     contact |-> [phone |-> "+91 98765 43210", email |-> "hello@zari.in"]]

ShopInputs ==
    { validShop,
      Spread(validShop, [images |-> Undefined]),
      Spread(validShop, assignedFields),
      Spread(validShop, [floor |-> 11]) }

validProduct(shopId) ==
    [name |-> "Solar Lantern", description |-> "Rechargeable solar lantern",
     price |-> 1500, category |-> "Electronics", shopId |-> shopId,
     stock |-> Whole(5)]

ProductInputs ==
    { validProduct("1"), validProduct("k2"),
      Spread(validProduct("1"), assignedFields),
      Spread(validProduct("1"), [stock |-> Whole(0 - 1)]) }

validOffer ==
    [title |-> "Winter Clearance", description |-> "Half price on winter wear",
     discount |-> 50, shopId |-> "1", productIds |-> <<"1">>,
     validFrom |-> 0, validTo |-> 10]

OfferInputs ==
    { validOffer,
      Spread(validOffer, assignedFields),
      Spread(validOffer, [discount |-> 101]) }

\* Patches of update: any object is accepted as long as the validator of
\* the kind finds nothing wrong with the fields it looks at.
Patches ==
    { [isActive |-> TRUE],
      [id |-> "2"],
      [stats |-> [views |-> 2, clicks |-> 2]],
      [stats |-> [views |-> 0, clicks |-> 0]],
      [description |-> "short"] }

Quantities == {Whole(0 - 1), 0, Whole(7)}

Filters == { <<>>, [includeInactive |-> TRUE],
             [includeInactive |-> TRUE, includeExpired |-> TRUE] }

\* A variant of GetShops that counts a view on the first shop.
GetShopsCounting(filters) ==
    /\ Returns(Call("getShops", "", filters, NoError, getShops(filters)))
    /\ Store("shops", increment("shops", "1", "views", "lastViewed"))
    /\ UNCHANGED deleted

GetShops(filters) ==
    /\ Returns(Call("getShops", "", filters, NoError, getShops(filters)))
    /\ UNCHANGED <<localStorage, deleted>>

GetProducts(filters) ==
    /\ Returns(Call("getProducts", "", filters, NoError, getProducts(filters)))
    /\ UNCHANGED <<localStorage, deleted>>

GetOffers(filters) ==
    /\ Returns(Call("getOffers", "", filters, NoError, getOffers(filters)))
    /\ UNCHANGED <<localStorage, deleted>>

Next ==
    /\ calls < MaxCalls
    /\ \/ \E d \in ShopInputs : createShop(d)
       \/ \E f \in Filters : GetShops(f)
       \/ \E id \in ShopIds : getShopById(id)
       \/ \E id \in ShopIds, d \in Patches : updateShop(id, d)
       \/ \E id \in ShopIds : deleteShop(id)
       \/ \E d \in ProductInputs : createProduct(d)
       \/ \E f \in Filters : GetProducts(f)
       \/ \E id \in ProductIds : getProductById(id)
       \/ \E id \in ProductIds, d \in Patches : updateProduct(id, d)
       \/ \E id \in ProductIds : deleteProduct(id)
       \/ \E id \in ProductIds, q \in Quantities : updateStock(id, q)
       \/ \E d \in OfferInputs : createOffer(d)
       \/ \E f \in Filters : GetOffers(f)
       \/ \E id \in OfferIds : getOfferById(id)
       \/ \E id \in OfferIds, d \in Patches : updateOffer(id, d)
       \/ \E id \in OfferIds : deleteOffer(id)
       \/ \E id \in OfferIds : applyOfferToProducts(id, <<"1", "2">>)
       \/ \E id \in OfferIds : trackOfferClick(id)

Spec == Init /\ [][Next]_vars

(***************************************************************************)
(* The referential guard alone: shops and their products, with room for    *)
(* the whole create-shop, create-product, delete-product, delete-shop      *)
(* sequence.                                                               *)
(***************************************************************************)
GuardPatches == { [isActive |-> TRUE], [shopId |-> "2"] }

NextGuard ==
    /\ calls < MaxGuardCalls
    /\ \/ createShop(validShop)
       \/ \E shopId \in {"1", "k2"} : createProduct(validProduct(shopId))
       \/ \E id \in ProductIds, d \in GuardPatches : updateProduct(id, d)
       \/ \E id \in ProductIds : deleteProduct(id)
       \/ \E id \in ShopIds : deleteShop(id)

SpecGuard == Init /\ [][NextGuard]_vars

(***************************************************************************)
(* Offers and the clock: offers are created, time passes, offers expire    *)
(* and are listed.                                                         *)
(***************************************************************************)
MaxOfferCalls == 3  \* service calls in one behaviour of SpecOffers
MaxTime       == 3  \* the last clock reading

\* Time passes between two calls.
Tick ==
    /\ now < MaxTime
    /\ now' = now + 1
    /\ UNCHANGED <<localStorage, currentUser, calls, ret, deleted, tasks>>

Discounts == {0 - 1, 0, 1, 100, 101}

ExpiryOffers ==
    { Spread(validOffer, [validTo |-> 1]) }
    \cup { Spread(validOffer, [validTo |-> 2, discount |-> d]) : d \in Discounts }

OfferFilters == { <<>>, [includeExpired |-> TRUE] }

GetExpiredOffers ==
    /\ Returns(Call("getExpiredOffers", "", Null, NoError, getExpiredOffers))
    /\ UNCHANGED <<localStorage, deleted>>

NextOffers ==
    \/ /\ calls < MaxOfferCalls
       /\ \/ \E d \in ExpiryOffers : createOffer(d)
          \/ \E f \in OfferFilters : GetOffers(f)
          \/ GetExpiredOffers
          \/ \E id \in OfferIds : deleteOffer(id)
    \/ Tick

SpecOffers == Init /\ [][NextOffers]_vars

(***************************************************************************)
(* The product catalog: products are written, listed and filtered by       *)
(* price.                                                                  *)
(***************************************************************************)
MaxProductCalls == 2  \* service calls in one behaviour of SpecProducts

StockInputs ==
    { validProduct("1"),
      Spread(validProduct("1"), [price |-> 2999]),
      Spread(validProduct("1"), [stock |-> 0]),
      Spread(validProduct("1"), [stock |-> Whole(0 - 1)]),
      Spread(validProduct("1"), [stock |-> 5]) }

StockPatches == { [stock |-> Whole(3)], [stock |-> 5], [stock |-> Whole(0 - 1)],
                  [price |-> 0] }

StockQuantities == {Whole(0 - 1), 0, 5, Whole(7)}

\* priceRange objects: each bound is left out or one of these prices.
PriceBounds == {0, 1500, 2999, 4500}
PriceRanges ==
    { [min |-> a, max |-> b] : a \in PriceBounds, b \in PriceBounds }
    \cup { [min |-> a] : a \in PriceBounds }
    \cup { [max |-> b] : b \in PriceBounds }

ProductFilters == { <<>>, [sortBy |-> "price_low"], [sortBy |-> "price_high"] }

\* getProductsByPriceRange(minPrice, maxPrice)
getProductsByPriceRange(priceRange) ==
    /\ Returns(Call("getProductsByPriceRange", "", priceRange, NoError,
                    getProducts([priceRange |-> priceRange])))
    /\ UNCHANGED <<localStorage, deleted>>

\* The gateway's query('products', {priceRange}) called directly.
QueryPriceRange(priceRange) ==
    /\ Returns(Call("query", "products", priceRange, NoError,
                    query(localStorage.products, [priceRange |-> priceRange])))
    /\ UNCHANGED <<localStorage, deleted>>

NextProducts ==
    /\ calls < MaxProductCalls
    /\ \/ \E d \in StockInputs : createProduct(d)
       \/ \E id \in ProductIds, d \in StockPatches : updateProduct(id, d)
       \/ \E id \in ProductIds, q \in StockQuantities : updateStock(id, q)
       \/ \E id \in ProductIds : deleteProduct(id)
       \/ \E f \in ProductFilters : GetProducts(f)
       \/ \E r \in PriceRanges : getProductsByPriceRange(r)
       \/ \E r \in PriceRanges : QueryPriceRange(r)

SpecProducts == Init /\ [][NextProducts]_vars

(***************************************************************************)
(* Product comparison: products are created, repriced and deleted, and     *)
(* lists of ids are compared.                                              *)
(***************************************************************************)
MaxCompareCalls == 2  \* service calls in one behaviour of SpecCompare

\* The id lists a caller passes to compareProducts: from no id to one id
\* more than may be compared.
CompareIds ==
    UNION {[1..n -> {"1", "2", "none"}] : n \in 0..(MaxComparable + 1)}

NextCompare ==
    /\ calls < MaxCompareCalls
    /\ \/ createProduct(validProduct("1"))
       \/ \E id \in {"1", "2"} : updateProduct(id, [price |-> 0])
       \/ \E id \in {"1", "2"} : deleteProduct(id)
       \/ \E ids \in CompareIds : compareProducts(ids)

SpecCompare == Init /\ [][NextCompare]_vars

(***************************************************************************)
(* The shop directory: shops are created and updated with floors around    *)
(* the limits of the validator.                                            *)
(***************************************************************************)
MaxShopCalls == 3  \* service calls in one behaviour of SpecShops

Floors == {0 - 1, 0, 1, 10, 11}

FloorInputs  == { Spread(validShop, [floor |-> f]) : f \in Floors }
FloorPatches == { [floor |-> f] : f \in Floors } \cup { [name |-> "Zari Crafts"] }

NextShops ==
    /\ calls < MaxShopCalls
    /\ \/ \E d \in FloorInputs : createShop(d)
       \/ \E id \in ShopIds, d \in FloorPatches : updateShop(id, d)
       \/ \E id \in ShopIds : deleteShop(id)
       \/ GetShops(<<>>)

SpecShops == Init /\ [][NextShops]_vars

(***************************************************************************)
(* The validity window: offers are created with windows around the limits  *)
(* of the validator and their window is patched while time passes.         *)
(***************************************************************************)
MaxWindowCalls == 2  \* service calls in one behaviour of SpecWindow

WindowTimes == {0, 1, 2}

WindowOffers ==
    { Spread(validOffer, [validFrom |-> f, validTo |-> t]) :
        f \in WindowTimes, t \in WindowTimes }

WindowPatches ==
    { [validTo |-> t] : t \in WindowTimes }
    \cup { [validFrom |-> f] : f \in WindowTimes }
    \cup { [validFrom |-> f, validTo |-> t] : f \in WindowTimes, t \in WindowTimes }
    \cup { [validTo |-> 2, title |-> "No"] }

NextWindow ==
    \/ /\ calls < MaxWindowCalls
       /\ \/ \E d \in WindowOffers : createOffer(d)
          \/ \E id \in OfferIds, d \in WindowPatches : updateOffer(id, d)
    \/ Tick

SpecWindow == Init /\ [][NextWindow]_vars

(***************************************************************************)
(* Searching, statistics and the derived lists.                            *)
(***************************************************************************)
MaxReadCalls == 2  \* service calls in one behaviour of SpecReads

\* String.prototype.includes after toLowerCase, on the strings of the
\* model: for each search term, the strings that contain it.
Containing ==
    [rural  |-> {"Rural Electronics Hub",
                 "Best electronic devices from rural manufacturers",
                 "info@ruralelectronics.com"},
     zari   |-> {"Zari Crafts", "Handmade zari embroidery", "hello@zari.in"},
     cotton |-> {"Handwoven Cotton Shirt",
                 "Traditional handwoven cotton shirt with modern design",
                 "100% Cotton"},
     xyz    |-> {}]

includes(str, searchTerm) == str \in Containing[searchTerm]

\* The shop matches on its name, description or category.
matchesText(item, searchTerm) ==
    \/ includes(item.name, searchTerm)
    \/ includes(item.description, searchTerm)
    \/ includes(item.category, searchTerm)

\* searchShops(query) with query.toLowerCase().trim() as its search term:
\* shop.contact.email.toLowerCase() is evaluated for a
\* shop that has a contact and matched on nothing before, and throws a
\* TypeError when the contact has no email.
searchShops(searchTerm) ==
    LET allShops == getShops(<<>>)
        throws(shop) == /\ ~matchesText(shop, searchTerm)
                        /\ Has(shop, "contact")
                        /\ ~Has(shop.contact, "email")
        hit(shop) == \/ matchesText(shop, searchTerm)
                     \/ ( Has(shop, "contact")
                          /\ includes(shop.contact.email, searchTerm) )
    IN  /\ IF trim(searchTerm) = ""
           THEN Returns(Call("searchShops", "", searchTerm, NoError, allShops))
           ELSE IF \E i \in 1..Len(allShops) : throws(allShops[i])
           THEN Returns(Call("searchShops", "", searchTerm, "TypeError", Null))
           ELSE Returns(Call("searchShops", "", searchTerm, NoError,
                             SelectSeq(allShops, hit)))
        /\ UNCHANGED <<localStorage, deleted>>

searchProducts(searchTerm) ==
    LET allProducts == getProducts(<<>>)
        hit(product) ==
            \/ matchesText(product, searchTerm)
            \/ ( Has(product, "specifications")
                 /\ \E k \in DOMAIN product.specifications :
                        includes(product.specifications[k], searchTerm) )
    IN  /\ Returns(Call("searchProducts", "", searchTerm, NoError,
                        IF trim(searchTerm) = "" THEN allProducts
                        ELSE SelectSeq(allProducts, hit)))
        /\ UNCHANGED <<localStorage, deleted>>

\* reduce((sum, p) => sum + p.price * p.stock, 0)
RECURSIVE totalValue(_)
totalValue(products) ==
    IF products = <<>> THEN 0
    ELSE Head(products).price * Head(products).stock + totalValue(Tail(products))

\* getShopStats(shopId), without the average price.
getShopStats(shopId) ==
    LET shop     == read(localStorage.shops, shopId)
        products == query(localStorage.products,
                          [shopId |-> shopId, isActive |-> TRUE])
        offers   == query(localStorage.offers,
                          [shopId |-> shopId, isActive |-> TRUE])
        inStock(p) == p.stock > 0
        soldOut(p) == p.stock = 0
    IN  /\ IF findIndex(localStorage.shops, shopId) = 0
           THEN Returns(Call("getShopStats", shopId, Null, "Shop not found", Null))
           ELSE Returns(Call("getShopStats", shopId, Null, NoError,
                    [totalProducts      |-> Len(products),
                     totalOffers        |-> Len(offers),
                     activeProducts     |-> Len(SelectSeq(products, inStock)),
                     outOfStockProducts |-> Len(SelectSeq(products, soldOut)),
                     totalValue         |-> totalValue(products),
                     views   |-> statOf(shop, "views"),
                     rating  |-> statOf(shop, "rating"),
                     reviews |-> statOf(shop, "reviews")]))
        /\ UNCHANGED <<localStorage, deleted>>

\* getExpiringOffers(days): the offers getActiveOffers() lists whose validTo
\* is no later than days from now.
getExpiringOffers(days) ==
    LET allOffers == getOffers([isActive |-> TRUE])
        expiring(offer) == Has(offer, "validTo") /\ offer.validTo <= now + days
    IN  /\ Returns(Call("getExpiringOffers", "", days, NoError,
                        SelectSeq(allOffers, expiring)))
        /\ UNCHANGED <<localStorage, deleted>>

getLowStockProducts(threshold) ==
    LET low(product) == product.stock <= threshold /\ product.stock > 0
    IN  /\ Returns(Call("getLowStockProducts", "", threshold, NoError,
                        SelectSeq(getProducts(<<>>), low)))
        /\ UNCHANGED <<localStorage, deleted>>

getOutOfStockProducts ==
    LET soldOut(product) == product.stock = 0
    IN  /\ Returns(Call("getOutOfStockProducts", "", Null, NoError,
                        SelectSeq(getProducts(<<>>), soldOut)))
        /\ UNCHANGED <<localStorage, deleted>>

Queries == {"", "   ", "rural", "zari", "cotton", "xyz"}

\* Shop data whose contact has a phone and no email.
ContactInputs == { validShop, Spread(validShop, [contact |-> [phone |-> "+91 98765 43210"]]) }

NextReads ==
    /\ calls < MaxReadCalls
    /\ \/ \E f \in Filters : GetShops(f)
       \/ \E f \in Filters : GetProducts(f)
       \/ \E f \in Filters : GetOffers(f)
       \/ \E q \in Queries : searchShops(q)
       \/ \E q \in Queries : searchProducts(q)
       \/ \E ids \in {<<"1", "2">>, <<"1">>} : compareProducts(ids)
       \/ \E id \in ShopIds : getShopStats(id)
       \/ \E days \in {7, ThirtyDays} : getExpiringOffers(days)
       \/ GetExpiredOffers
       \/ \E threshold \in {Whole(10), Whole(25)} : getLowStockProducts(threshold)
       \/ getOutOfStockProducts
       \/ \E d \in ContactInputs : createShop(d)
       \/ \E id \in ShopIds : updateShop(id, [contact |-> [phone |-> "+1-555-0123"]])
       \/ \E id \in ShopIds : getShopById(id)
       \/ \E id \in OfferIds : trackOfferClick(id)
       \/ \E id \in ProductIds : updateStock(id, 0)

SpecReads == Init /\ [][NextReads]_vars

(***************************************************************************)
(* Creation alone: the three services create records from data that may    *)
(* carry an id of its own, among updates that rewrite ids.                 *)
(***************************************************************************)
MaxCreateCalls == 2  \* service calls in one behaviour of SpecCreate

NextCreate ==
    /\ calls < MaxCreateCalls
    /\ \/ \E d \in ShopInputs : createShop(d)
       \/ \E d \in ProductInputs : createProduct(d)
       \/ \E d \in OfferInputs : createOffer(d)
       \/ \E id \in ShopIds : updateShop(id, [id |-> "2"])
       \/ \E id \in OfferIds : deleteOffer(id)

SpecCreate == Init /\ [][NextCreate]_vars

(***************************************************************************)
(* getById when the gateway fails inside the view-count step: the read or  *)
(* the update of increment*Views throws (localStorage or JSON raising),    *)
(* which the method catches and logs.                                      *)
(***************************************************************************)
MaxFaultCalls == 3  \* service calls in one behaviour of SpecFaults

\* Where the gateway throws inside the increment: nowhere, in its read, or
\* in its update.
Faults == {"none", "read", "update"}

NotFound == [shops |-> "Shop not found", products |-> "Product not found",
             offers |-> "Offer not found"]
GetById  == [shops |-> "getShopById", products |-> "getProductById",
             offers |-> "getOfferById"]

\* A variant of getByIdUnder that raises the failure of the increment.
getByIdUnderRaising(collection, id, fault) ==
    LET doc == read(localStorage[collection], id)
    IN  IF findIndex(localStorage[collection], id) = 0
        THEN /\ Returns(Call(GetById[collection], id, fault,
                             NotFound[collection], Null))
             /\ UNCHANGED <<localStorage, deleted>>
        ELSE IF fault # "none"
        THEN /\ Returns(Call(GetById[collection], id, fault,
                             "gateway failure", Null))
             /\ UNCHANGED <<localStorage, deleted>>
        ELSE /\ Store(collection, increment(collection, id, "views", "lastViewed"))
             /\ Returns(Call(GetById[collection], id, fault, NoError, doc))
             /\ UNCHANGED deleted

\* get*ById(id) with the gateway failing as the fault says.
getByIdUnder(collection, id, fault) ==
    LET doc == read(localStorage[collection], id)
    IN  IF findIndex(localStorage[collection], id) = 0
        THEN /\ Returns(Call(GetById[collection], id, fault,
                             NotFound[collection], Null))
             /\ UNCHANGED <<localStorage, deleted>>
        ELSE /\ Store(collection,
                      IF fault = "none"
                      THEN increment(collection, id, "views", "lastViewed")
                      ELSE localStorage[collection])
             /\ Returns(Call(GetById[collection], id, fault, NoError, doc))
             /\ UNCHANGED deleted

NextFaults ==
    /\ calls < MaxFaultCalls
    /\ \/ \E c \in Collections, id \in {"1", "none"}, fault \in Faults :
            getByIdUnder(c, id, fault)
       \/ \E id \in ProductIds : deleteProduct(id)
       \/ createProduct(validProduct("1"))

SpecFaults == Init /\ [][NextFaults]_vars

(***************************************************************************)
(* Calls in flight.  An async method runs without interruption from its    *)
(* call to its first await and from one await to the next; the gateway's   *)
(* read, create and update run their localStorage branch without an await, *)
(* so each is done at the moment it is called, and the caller is resumed   *)
(* in a later step.  A task is one call of a service method; its pc names  *)
(* the await it is suspended at.                                           *)
(***************************************************************************)
Task(op, id, arg, pc, seen, err) ==
    [op |-> op, id |-> id, arg |-> arg, pc |-> pc, seen |-> seen, err |-> err,
     seq |-> 0]

TaskIds == 1..Len(tasks)

\* The position of the next write among the gateway writes of the tasks.
nextSeq == 1 + Max({0} \cup {tasks[t].seq : t \in TaskIds})

Begin(task) ==
    /\ tasks' = Append(tasks, task)
    /\ UNCHANGED <<currentUser, now, calls, ret>>

Advance(t, pc, err) ==
    /\ tasks' = [tasks EXCEPT ![t].pc = pc, ![t].err = err]
    /\ UNCHANGED <<currentUser, now, calls, ret>>

Written(task) == [task EXCEPT !.seq = nextSeq]

\* A variant of mergeInto that merges into the list as it was loaded at
\* construction instead of the list in localStorage.
mergeIntoLoaded(collection, id, data) ==
    update(initializeDemoData[collection], id, data)

\* The gateway's update on the list it reads from localStorage at that
\* moment.
mergeInto(collection, id, data) == update(localStorage[collection], id, data)

\* The first step of an update call: the patch is validated and handed to
\* the gateway, which merges and writes it; the call awaits the result.
BeginUpdate(collection, op, id, updateData, invalid) ==
    LET err == IF invalid # NoError THEN invalid
               ELSE IF findIndex(localStorage[collection], id) = 0
               THEN "Document not found"
               ELSE NoError
        task == Task(op, id, updateData, "settled", Null, err)
    IN  IF err # NoError
        THEN Begin(task) /\ UNCHANGED <<localStorage, deleted>>
        ELSE /\ Store(collection, mergeInto(collection, id,
                        Spread(updateData, [updatedBy |-> getCurrentUserId])))
             /\ Begin(Written(task))
             /\ UNCHANGED deleted

BeginUpdateShop(shopId, updateData) ==
    BeginUpdate("shops", "updateShop", shopId, updateData,
                validateShopData(updateData, TRUE))

BeginUpdateProduct(productId, updateData) ==
    BeginUpdate("products", "updateProduct", productId, updateData,
                validateProductData(updateData, TRUE))

\* The first step of a create call: the data is validated and handed to the
\* gateway, which appends and writes the document.
BeginCreate(collection, op, data, doc, invalid) ==
    LET task == Task(op, generateId(localStorage[collection]), data,
                     "settled", Null, invalid)
    IN  IF invalid # NoError
        THEN Begin(task) /\ UNCHANGED <<localStorage, deleted>>
        ELSE /\ Len(localStorage[collection]) < MaxItems
             /\ Store(collection, create(localStorage[collection], doc))
             /\ Begin(Written(task))
             /\ UNCHANGED deleted

BeginCreateShop(shopData) ==
    BeginCreate("shops", "createShop", shopData,
                Spread(shopData, [isActive |-> TRUE,
                                  createdBy |-> getCurrentUserId,
                                  stats |-> zeroShopStats]),
                validateShopData(shopData, FALSE))

BeginCreateProduct(productData) ==
    BeginCreate("products", "createProduct", productData,
                Spread(productData, [isActive |-> TRUE,
                                     createdBy |-> getCurrentUserId,
                                     stats |-> zeroProductStats]),
                validateProductData(productData, FALSE))

\* deleteShop up to its first await: the gateway reads the products list
\* for the query, and the call is suspended with that list.
BeginDeleteShop(shopId) ==
    /\ Begin(Task("deleteShop", shopId, Null, "checking",
                  productsOfShop(shopId), NoError))
    /\ UNCHANGED <<localStorage, deleted>>

\* deleteShop resumed with the products it read: it throws, or it hands the
\* soft delete to the gateway, which writes it.
ResumeDeleteShop(t) ==
    /\ tasks[t].op = "deleteShop" /\ tasks[t].pc = "checking"
    /\ IF Len(tasks[t].seen) > 0
       THEN Advance(t, "settled", Conflict) /\ UNCHANGED <<localStorage, deleted>>
       ELSE IF findIndex(localStorage.shops, tasks[t].id) = 0
       THEN /\ Advance(t, "settled", "Document not found")
            /\ UNCHANGED <<localStorage, deleted>>
       ELSE /\ Store("shops", mergeInto("shops", tasks[t].id, softDelete))
            /\ tasks' = [tasks EXCEPT ![t] = Written([@ EXCEPT !.pc = "settled"])]
            /\ deleted' = deleted \cup {<<"shops", tasks[t].id>>}
            /\ UNCHANGED <<currentUser, now, calls, ret>>

\* getShopById up to its first await: the gateway reads the shop.
BeginGetShopById(shopId) ==
    /\ Begin(Task("getShopById", shopId, Null, "read",
                  read(localStorage.shops, shopId),
                  IF findIndex(localStorage.shops, shopId) = 0
                  THEN "Shop not found" ELSE NoError))
    /\ UNCHANGED <<localStorage, deleted>>

\* trackOfferClick up to its first await: the gateway reads the offer.
BeginTrackOfferClick(offerId) ==
    /\ Begin(Task("trackOfferClick", offerId, Null, "counting",
                  read(localStorage.offers, offerId), NoError))
    /\ UNCHANGED <<localStorage, deleted>>

\* getShopById resumed with the shop: it throws when there is none, else it
\* calls incrementShopViews, whose gateway read is done at once.
ResumeGetShopById(t) ==
    /\ tasks[t].op = "getShopById" /\ tasks[t].pc = "read"
    /\ IF tasks[t].err # NoError
       THEN Advance(t, "settled", tasks[t].err)
       ELSE /\ tasks' = [tasks EXCEPT
                            ![t].pc = "counting",
                            ![t].arg = read(localStorage.shops, tasks[t].id)]
            /\ UNCHANGED <<currentUser, now, calls, ret>>
    /\ UNCHANGED <<localStorage, deleted>>

CounterOps == [getShopById     |-> <<"shops", "views", "lastViewed">>,
               trackOfferClick |-> <<"offers", "clicks", "lastClicked">>]

\* The document the increment read before it was suspended.
counted(task) == IF task.op = "getShopById" THEN task.arg ELSE task.seen

\* The increment resumed with the document it read: the counter it read
\* plus one is handed to the gateway under the dotted key and written.
ResumeIncrement(t) ==
    /\ tasks[t].op \in DOMAIN CounterOps /\ tasks[t].pc = "counting"
    /\ LET collection == CounterOps[tasks[t].op][1]
           counter    == CounterOps[tasks[t].op][2]
           stamp      == CounterOps[tasks[t].op][3]
       IN  IF findIndex(localStorage[collection], tasks[t].id) = 0
           THEN Advance(t, "settled", NoError) /\ UNCHANGED localStorage
           ELSE /\ Store(collection, mergeInto(collection, tasks[t].id,
                        (("stats." \o counter)
                            :> (statOf(counted(tasks[t]), counter) + 1))
                        @@ (("stats." \o stamp) :> now)))
                /\ tasks' = [tasks EXCEPT ![t] = Written([@ EXCEPT !.pc = "settled"])]
                /\ UNCHANGED <<currentUser, now, calls, ret>>
    /\ UNCHANGED deleted

\* The caller of a settled call is resumed with its result or its error.
Settle(t) ==
    /\ tasks[t].pc = "settled"
    /\ Advance(t, "done", tasks[t].err)
    /\ UNCHANGED <<localStorage, deleted>>

(***************************************************************************)
(* Concurrent updates and creates in the shops collection.                 *)
(***************************************************************************)
MaxUpdateTasks == 2  \* calls in one behaviour of SpecRaceUpdate

\* The two demo shops and the shop a create adds.
RaceShopIds == {"1", "2", "k2"}

RacePatches ==
    { [description |-> "Fresh description"],
      [description |-> "Other description", category |-> "Clothing"],
      [category |-> "Electronics"] }

NextRaceUpdate ==
    \/ /\ Len(tasks) < MaxUpdateTasks
       /\ \/ \E id \in RaceShopIds, d \in RacePatches : BeginUpdateShop(id, d)
          \/ BeginCreateShop(validShop)
    \/ \E t \in TaskIds : Settle(t)

SpecRaceUpdate == Init /\ [][NextRaceUpdate]_vars

(***************************************************************************)
(* Concurrent views and clicks.                                            *)
(***************************************************************************)
MaxViewTasks == 2  \* calls in one behaviour of SpecRaceViews

NextRaceViews ==
    \/ /\ Len(tasks) < MaxViewTasks
       /\ \/ \E id \in {"1", "none"} : BeginGetShopById(id)
          \/ \E id \in {"1", "none"} : BeginTrackOfferClick(id)
    \/ \E t \in TaskIds : ResumeGetShopById(t)
    \/ \E t \in TaskIds : ResumeIncrement(t)
    \/ \E t \in TaskIds : Settle(t)

SpecRaceViews == Init /\ [][NextRaceViews]_vars

(***************************************************************************)
(* deleteShop in flight together with product writes.                      *)
(***************************************************************************)
MaxDeleteTasks == 3  \* calls in one behaviour of SpecRaceDelete

NextRaceDelete ==
    \/ /\ Len(tasks) < MaxDeleteTasks
       /\ \/ BeginCreateShop(validShop)
          \/ BeginCreateProduct(validProduct("k2"))
          \/ \E shopId \in {"1", "2"} :
                BeginUpdateProduct("1", [shopId |-> shopId])
          \/ \E id \in ShopIds : BeginDeleteShop(id)
    \/ \E t \in TaskIds : ResumeDeleteShop(t)
    \/ \E t \in TaskIds : Settle(t)

SpecRaceDelete == Init /\ [][NextRaceDelete]_vars

(***************************************************************************)
(* Properties.                                                             *)
(***************************************************************************)
Docs(c) == localStorage[c]
Indexes(c) == 1..Len(localStorage[c])

getAll(c, filters) ==
    CASE c = "shops"    -> getShops(filters)
      [] c = "products" -> getProducts(filters)
      [] c = "offers"   -> getOffers(filters)

CreateOps  == [shops |-> "createShop", products |-> "createProduct",
               offers |-> "createOffer"]
GetByIdOps == [shops |-> "getShopById", products |-> "getProductById",
               offers |-> "getOfferById"]
zeroStats  == [shops |-> zeroShopStats, products |-> zeroProductStats,
               offers |-> zeroOfferStats]

\* The step is a service call.
IsCall == calls' = calls + 1

\* C1: after a successful delete(id), getAll() with default filters never
\* returns a record with that id, whatever calls come in between.
C1_DeletedNeverListed ==
    \A c \in Collections : \A id \in Ids(getAll(c, <<>>)) : <<c, id>> \notin deleted

\* C2: after a successful delete(id), getAll({includeInactive: true}) (for
\* offers with includeExpired set as well) returns the record with that id,
\* and the record has isActive = false.
C2_DeletedListedAsInactive ==
    \A c \in Collections :
        LET all == getAll(c, IF c = "offers"
                             THEN [includeInactive |-> TRUE, includeExpired |-> TRUE]
                             ELSE [includeInactive |-> TRUE])
        IN  \A id \in {"1", "k1", "k2"} :
                <<c, id>> \in deleted =>
                    \E i \in 1..Len(all) : all[i].id = id /\ all[i].isActive = FALSE

\* C3: deleteShop(S) fails with the conflict error whenever some product
\* document, active or not, has shopId = S, and then leaves the store as it
\* was (S keeps its isActive, no deletedAt or deletedBy is written).
C3_ShopWithProductsNotDeleted ==
    [][ ( /\ IsCall
          /\ ret'.op = "deleteShop"
          /\ \E i \in Indexes("products") :
                Has(Docs("products")[i], "shopId")
                /\ Docs("products")[i].shopId = ret'.id )
        => ( ret'.err = Conflict /\ localStorage' = localStorage ) ]_vars

\* An inactive product of an active shop has just blocked deleteShop.
C3_Witness ==
    /\ ret.op = "deleteShop"
    /\ ret.err = Conflict
    /\ \E i \in Indexes("shops") :
            Docs("shops")[i].id = ret.id /\ Docs("shops")[i].isActive
            /\ ~Has(Docs("shops")[i], "deletedAt")
    /\ \A i \in Indexes("products") :
            Docs("products")[i].shopId = ret.id => ~Docs("products")[i].isActive
    /\ \E i \in Indexes("products") : Docs("products")[i].shopId = ret.id

\* The step deletes shop S right after deleteProduct(P) succeeded, S being a
\* shop createShop made and P the only product document with shopId = S,
\* made by createProduct.
DeleteProductThenShop ==
    /\ IsCall
    /\ ret.op = "deleteProduct" /\ ret.err = NoError
    /\ ret'.op = "deleteShop"
    /\ \E i \in Indexes("shops") :
            Docs("shops")[i].id = ret'.id /\ Has(Docs("shops")[i], "createdBy")
    /\ \E i \in Indexes("products") :
            /\ Docs("products")[i].id = ret.id
            /\ Has(Docs("products")[i], "createdBy")
            /\ Docs("products")[i].shopId = ret'.id
            /\ \A j \in Indexes("products") :
                    Docs("products")[j].shopId = ret'.id => j = i

\* C4 as stated: deleteProduct(P) followed by deleteShop(S) succeeds and S
\* ends with isActive = false.
C4_DeleteProductThenShopSucceeds ==
    [][ DeleteProductThenShop =>
            /\ ret'.err = NoError
            /\ \A i \in Indexes("shops") :
                    localStorage'.shops[i].id = ret'.id
                        => localStorage'.shops[i].isActive = FALSE ]_vars

\* C4 as the code has it: P is only marked inactive and stays in the
\* products list, so deleteShop(S) fails with the conflict error and leaves
\* S as it was.
C4_DeleteProductThenShopConflicts ==
    [][ DeleteProductThenShop =>
            ( ret'.err = Conflict /\ localStorage' = localStorage ) ]_vars

\* deleteShop of a created shop was refused after its only product, a
\* created one, had been deleted.
C4_Witness ==
    /\ ret.op = "deleteShop" /\ ret.id = "k2" /\ ret.err = Conflict
    /\ <<"products", "k2">> \in deleted
    /\ \E i \in Indexes("shops") :
            Docs("shops")[i].id = "k2" /\ Docs("shops")[i].isActive
    /\ \E i \in Indexes("products") :
            /\ Docs("products")[i].id = "k2"
            /\ Docs("products")[i].shopId = "k2"
            /\ ~Docs("products")[i].isActive
            /\ \A j \in Indexes("products") :
                    Docs("products")[j].shopId = "k2" => j = i

\* C5: no collection holds two documents with the same id, and the id of a
\* document never changes.
C5_IdsUniqueAndImmutable ==
    [][ \A c \in Collections :
            /\ \A i \in Indexes(c) : localStorage'[c][i].id = Docs(c)[i].id
            /\ \A i, j \in 1..Len(localStorage'[c]) :
                    localStorage'[c][i].id = localStorage'[c][j].id => i = j ]_vars

\* C6: the set of ids present in a collection never loses an id.
C6_IdsNeverRemoved ==
    [][ \A c \in Collections : Ids(Docs(c)) \subseteq Ids(localStorage'[c]) ]_vars

\* C7: a document with isActive = false never gets isActive = true again.
C7_InactiveIsTerminal ==
    [][ \A c \in Collections : \A i \in Indexes(c) :
            Docs(c)[i].isActive = FALSE => localStorage'[c][i].isActive = FALSE ]_vars

\* The fields create assigns itself.
assignedKeys == {"id", "createdAt", "isActive", "stats", "createdBy"}

\* The step is getById(id) right after the create of collection c returned id.
CreateThenGetById(c) ==
    /\ IsCall
    /\ ret.op = CreateOps[c] /\ ret.err = NoError
    /\ ret'.op = GetByIdOps[c] /\ ret'.id = ret.val

\* record[k] === data[k]
SameField(record, data, k) ==
    \/ Has(record, k) /\ record[k] = data[k]
    \/ ~Has(record, k) /\ k \in StringKeys /\ data[k] = Undefined

\* The record carries the id create returned, its createdAt, isActive = true,
\* the zeroed stats of its kind and the creator.
HasAssigned(record, c, id) ==
    /\ record.id = id
    /\ Has(record, "createdAt") /\ record.createdAt = now
    /\ record.isActive = TRUE
    /\ record.stats = zeroStats[c]
    /\ record.createdBy = getCurrentUserId

\* C8 as stated: create(X) followed by getById(id) returns a record with
\* every field of X unchanged, and with the assigned id, createdAt,
\* isActive = true, zeroed stats and createdBy.
C8_EveryFieldUnchanged ==
    [][ \A c \in Collections :
          CreateThenGetById(c) =>
            /\ ret'.err = NoError
            /\ \A k \in DOMAIN ret.arg : SameField(ret'.val, ret.arg, k)
            /\ HasAssigned(ret'.val, c, ret.val) ]_vars

\* C8 as the code has it: the record carries every field of X that is not
\* one of id, createdAt, isActive, stats, createdBy unchanged, and those five
\* with the assigned values, whatever X held for them.
C8_CreateGetByIdRoundTrip ==
    [][ \A c \in Collections :
          CreateThenGetById(c) =>
            /\ ret'.err = NoError
            /\ \A k \in DOMAIN ret.arg \ assignedKeys :
                    SameField(ret'.val, ret.arg, k)
            /\ HasAssigned(ret'.val, c, ret.val) ]_vars

\* The second call of the behaviour, getProductById, has returned the
\* product the first call created, and its first view is recorded.
C8_Witness ==
    /\ calls = 2
    /\ ret.op = "getProductById" /\ ret.err = NoError /\ ret.id = "k2"
    /\ ret.val.name = "Solar Lantern"
    /\ ret.val.stats = zeroProductStats
    /\ \E i \in Indexes("products") :
            /\ Docs("products")[i].id = "k2"
            /\ Docs("products")[i]["stats.views"] = 1

\* C9: a successful getById(id) increases stats.views of the stored
\* document, inside its stats object, by exactly one.
C9_GetByIdIncrementsViews ==
    [][ \A c \in Collections :
          ( IsCall /\ ret'.op = GetByIdOps[c] /\ ret'.err = NoError ) =>
            LET i == findIndex(Docs(c), ret'.id)
            IN  statOf(localStorage'[c][i], "views")
                    = statOf(Docs(c)[i], "views") + 1 ]_vars

\* C10: stats.views and stats.clicks of a document never decrease.
C10_CountersNeverDecrease ==
    [][ \A c \in Collections : \A i \in Indexes(c) :
            /\ statOf(localStorage'[c][i], "views") >= statOf(Docs(c)[i], "views")
            /\ statOf(localStorage'[c][i], "clicks") >= statOf(Docs(c)[i], "clicks")
      ]_vars

\* The offer is active and its validTo is before the current time.
ActiveExpired(offer) == offer.isActive = TRUE /\ isExpired(offer)

Listed(offer, list) == \E j \in 1..Len(list) : list[j] = offer

\* C11: an active offer whose validTo is before the current time is never
\* in the result of getOffers() with default filters.
C11_ExpiredNotInDefaultList ==
    \A i \in Indexes("offers") :
        ActiveExpired(Docs("offers")[i])
            => ~Listed(Docs("offers")[i], getOffers(<<>>))

\* getOffers() has just returned the demo offer, still valid, and not the
\* created offer, which is active and past its validTo.
C11_Witness ==
    /\ ret.op = "getOffers" /\ ret.arg = <<>>
    /\ Len(ret.val) = 1 /\ ret.val[1].id = "1"
    /\ \E i \in Indexes("offers") :
            /\ Docs("offers")[i].id = "k1"
            /\ ActiveExpired(Docs("offers")[i])

\* C12: an active offer whose validTo is before the current time is in the
\* result of getOffers({includeExpired: true}) and in the result of
\* getExpiredOffers().
C12_ExpiredListedOnRequest ==
    \A i \in Indexes("offers") :
        ActiveExpired(Docs("offers")[i])
            => /\ Listed(Docs("offers")[i], getOffers([includeExpired |-> TRUE]))
               /\ Listed(Docs("offers")[i], getExpiredOffers)

\* The data is valid once its discount is one the validator accepts.
OtherwiseValidOffer(offerData) ==
    validateOfferData(Spread(offerData, [discount |-> 50]), FALSE) = NoError

\* C13: createOffer with otherwise valid data succeeds exactly when the
\* discount is within 0..100, both ends included; with a discount below 0
\* or above 100 it fails with a validation error and creates no offer.
C13_DiscountBounds ==
    [][ ( /\ IsCall
          /\ ret'.op = "createOffer"
          /\ Has(ret'.arg, "discount")
          /\ OtherwiseValidOffer(ret'.arg) )
        => /\ (ret'.err = NoError) <=> (ret'.arg.discount \in 0..100)
           /\ ret'.arg.discount \notin 0..100
                => /\ ret'.err = "Discount must be between 0 and 100 percent"
                   /\ localStorage' = localStorage ]_vars

\* The positions of the id list whose id is present in the products list.
Resolving(ids) == {i \in 1..Len(ids) : ids[i] \in Ids(Docs("products"))}

NonDecreasingInPrice(list) ==
    \A i \in 1..(Len(list) - 1) : list[i].price <= list[i + 1].price

\* C15: getProducts({sortBy: 'price_low'}) returns the records getProducts()
\* returns, every active product, in a sequence non-decreasing in price.
C15_PriceLowListsAllActive ==
    LET sorted == getProducts([sortBy |-> "price_low"])
        all    == getProducts(<<>>)
    IN  /\ Len(sorted) = Len(all)
        /\ \A i \in 1..Len(all) : Listed(all[i], sorted)
        /\ \A i \in Indexes("products") :
                Docs("products")[i].isActive = TRUE
                    => Listed(Docs("products")[i], sorted)
        /\ NonDecreasingInPrice(sorted)

\* min <= price whenever min is given, price <= max whenever max is given.
InPriceRange(item, priceRange) ==
    /\ Has(priceRange, "min") => (Has(item, "price") /\ priceRange.min <= item.price)
    /\ Has(priceRange, "max") => (Has(item, "price") /\ item.price <= priceRange.max)

\* C18: query(collection, {priceRange: {min, max}}) returns exactly the
\* records whose price is within the given bounds, both inclusive, for every
\* pair of non-negative bounds, 0 included.
C18_PriceRangeInclusive ==
    [][ ( IsCall /\ ret'.op = "query" ) =>
          LET InRange(item) == InPriceRange(item, ret'.arg)
          IN  ret'.val = SelectSeq(Docs("products"), InRange) ]_vars

\* C20: every product document has a stock that is a non-negative integer.
C20_StockNonNegativeInteger ==
    \A i \in Indexes("products") :
        /\ Docs("products")[i].stock >= 0
        /\ isInteger(Docs("products")[i].stock)

\* C16: the record a successful create stores has isActive = true, every
\* stats counter 0 and createdBy the current actor, whatever the caller's
\* data held under isActive, stats, createdBy, id and createdAt.
C16_CreateDefaults ==
    [][ \A c \in Collections :
          ( IsCall /\ ret'.op = CreateOps[c] /\ ret'.err = NoError ) =>
            LET n   == Len(localStorage'[c])
                doc == localStorage'[c][n]
            IN  /\ n = Len(Docs(c)) + 1
                /\ \A i \in Indexes(c) : localStorage'[c][i] = Docs(c)[i]
                /\ doc.isActive = TRUE
                /\ DOMAIN doc.stats = DOMAIN zeroStats[c]
                /\ \A k \in DOMAIN doc.stats : doc.stats[k] = 0
                /\ doc.createdBy = getCurrentUserId ]_vars

\* createShop has stored a record for data that carried isActive = false,
\* another creator and non-zero stats.
C16_Witness ==
    /\ ret.op = "createShop" /\ ret.err = NoError
    /\ Has(ret.arg, "isActive") /\ ret.arg.isActive = FALSE
    /\ ret.arg.createdBy = "mallory" /\ ret.arg.stats.views = 5
    /\ \E i \in Indexes("shops") :
            /\ Docs("shops")[i].id = ret.val
            /\ Docs("shops")[i].isActive = TRUE
            /\ Docs("shops")[i].stats.views = 0
            /\ Docs("shops")[i].createdBy = getCurrentUserId

\* The create, update and delete operations of the three services.
WriteOps == {"createShop", "updateShop", "deleteShop",
             "createProduct", "updateProduct", "deleteProduct", "updateStock",
             "createOffer", "updateOffer", "deleteOffer", "applyOfferToProducts"}

\* C17: a create, update or delete call that fails, by validation, because
\* the id is absent or by the shop-has-products conflict, leaves every
\* collection as it was.
C17_FailureChangesNothing ==
    [][ ( IsCall /\ ret'.op \in WriteOps /\ ret'.err # NoError )
            => localStorage' = localStorage ]_vars

\* updateShop has refused a description that is too short, after an
\* earlier call changed the store, and shop '1' has its description still.
C17_Witness ==
    /\ ret.op = "updateShop" /\ ret.id = "1"
    /\ ret.err = "Shop description must be at least 10 characters long"
    /\ localStorage # initializeDemoData
    /\ \E i \in Indexes("shops") :
            /\ Docs("shops")[i].id = "1"
            /\ Docs("shops")[i].description = demoShops[1].description

\* C19: every shop document has a floor within 1..10.
C19_FloorInRange ==
    \A i \in Indexes("shops") : Docs("shops")[i].floor \in 1..10

\* C21: updateOffer with a patch that holds validTo and not validFrom, and
\* nothing the validator refuses, succeeds on a stored offer whatever the
\* stored validFrom is, and writes the new validTo next to it; every offer
\* createOffer stores has validFrom < validTo.
C21_ValidToNotRechecked ==
    [][ /\ ( /\ IsCall
             /\ ret'.op = "updateOffer"
             /\ Has(ret'.arg, "validTo") /\ ~Has(ret'.arg, "validFrom")
             /\ validateOfferData(Without(ret'.arg, {"validTo"}), TRUE) = NoError
             /\ findIndex(Docs("offers"), ret'.id) # 0 )
           => LET i == findIndex(Docs("offers"), ret'.id)
              IN  /\ ret'.err = NoError
                  /\ localStorage'.offers[i].validTo = ret'.arg.validTo
                  /\ localStorage'.offers[i].validFrom = Docs("offers")[i].validFrom
        /\ ( IsCall /\ ret'.op = "createOffer" /\ ret'.err = NoError )
           => LET doc == localStorage'.offers[Len(localStorage'.offers)]
              IN  doc.validFrom < doc.validTo ]_vars

\* updateOffer has just moved the validTo of an offer createOffer stored to
\* a time before its validFrom.
C21_Witness ==
    /\ ret.op = "updateOffer" /\ ret.err = NoError /\ ret.id = "k1"
    /\ DOMAIN ret.arg = {"validTo"}
    /\ \E i \in Indexes("offers") :
            /\ Docs("offers")[i].id = "k1"
            /\ Has(Docs("offers")[i], "createdBy")
            /\ Docs("offers")[i].validTo = ret.arg.validTo
            /\ Docs("offers")[i].validFrom > Docs("offers")[i].validTo

\* The update calls on shop id whose merge the gateway has written.
UpdatesOf(id) ==
    {t \in TaskIds : tasks[t].op = "updateShop" /\ tasks[t].id = id
                      /\ tasks[t].seq > 0}

\* Among them, the one that set field k last.
LastSetting(id, k) ==
    CHOOSE t \in UpdatesOf(id) :
        /\ k \in DOMAIN tasks[t].arg
        /\ \A u \in UpdatesOf(id) :
                k \in DOMAIN tasks[u].arg => tasks[u].seq <= tasks[t].seq

\* C22: concurrent update calls on one id all succeed, and the record is
\* the result of their merges applied one after the other: a field set by
\* one patch has that patch's value, a field set by several has the value
\* of the merge applied last, and a field no patch sets is as it was.
C22_ConcurrentUpdatesMerge ==
    /\ \A t \in TaskIds :
            ( tasks[t].op = "updateShop" /\ tasks[t].id \in {"1", "2"} )
                => ( tasks[t].err = NoError /\ tasks[t].seq > 0 )
    /\ \A i \in Indexes("shops") :
            LET doc  == Docs("shops")[i]
                keys == UNION {DOMAIN tasks[t].arg : t \in UpdatesOf(doc.id)}
            IN  /\ \A k \in keys : doc[k] = tasks[LastSetting(doc.id, k)].arg[k]
                /\ i <= Len(demoShops)
                    => \A k \in DOMAIN demoShops[i] \ keys :
                            doc[k] = demoShops[i][k]

\* Two update calls on shop '1' are both done; both set the description,
\* to different values, and only one set the category.
C22_Witness ==
    \E t, u \in TaskIds :
        /\ t # u
        /\ tasks[t].op = "updateShop" /\ tasks[u].op = "updateShop"
        /\ tasks[t].id = "1" /\ tasks[u].id = "1"
        /\ tasks[t].pc = "done" /\ tasks[u].pc = "done"
        /\ tasks[t].seq < tasks[u].seq
        /\ DOMAIN tasks[t].arg = {"description", "category"}
        /\ DOMAIN tasks[u].arg = {"description"}
        /\ Docs("shops")[1].description = "Fresh description"
        /\ Docs("shops")[1].category = "Clothing"

\* C28: a step changes a stored record only when it is the gateway write of
\* an update on that record's id, and no step shortens a list: a create or
\* an update leaves every other record of the collection as it is.
C28_OtherRecordsKept ==
    [][ \A c \in Collections :
          /\ Len(localStorage'[c]) >= Len(Docs(c))
          /\ \A i \in Indexes(c) :
                localStorage'[c][i] # Docs(c)[i]
                    => \E t \in 1..Len(tasks') :
                            /\ tasks'[t].seq = nextSeq
                            /\ tasks'[t].op = "updateShop" /\ c = "shops"
                            /\ tasks'[t].id = Docs(c)[i].id ]_vars

\* A create and an update on another shop, in flight together, are both
\* done and both stored.
C28_Witness ==
    \E t, u \in TaskIds :
        /\ tasks[t].op = "createShop" /\ tasks[u].op = "updateShop"
        /\ tasks[t].pc = "done" /\ tasks[u].pc = "done"
        /\ tasks[u].id = "2" /\ tasks[u].arg = [category |-> "Electronics"]
        /\ Len(Docs("shops")) = 3
        /\ Docs("shops")[3].id = tasks[t].id
        /\ Docs("shops")[3].name = tasks[t].arg.name
        /\ Docs("shops")[2].category = "Electronics"
        /\ Docs("shops")[1] = demoShops[1]

\* The increment of task t has been written.
Counted(t) ==
    /\ tasks[t].op \in DOMAIN CounterOps
    /\ tasks[t].pc \in {"settled", "done"}
    /\ tasks[t].seq > 0

\* C23: when two concurrent getById (or trackOfferClick) calls on one id
\* have both read the same counter value and both written their increment,
\* the stored counter is that value plus 1, not plus 2.
C23_LostIncrement ==
    \A t, u \in TaskIds :
        LET collection == CounterOps[tasks[t].op][1]
            counter    == CounterOps[tasks[t].op][2]
            doc        == read(localStorage[collection], tasks[t].id)
        IN  ( /\ t # u
              /\ Counted(t) /\ Counted(u)
              /\ tasks[t].op = tasks[u].op /\ tasks[t].id = tasks[u].id
              /\ statOf(counted(tasks[t]), counter)
                    = statOf(counted(tasks[u]), counter) )
            => statOf(doc, counter) = statOf(counted(tasks[t]), counter) + 1

\* C24: at the moment deleteShop writes isActive = false on shop S, no
\* document of the products list has shopId = S, whatever createProduct and
\* updateProduct calls ran since deleteShop read the products.
C24_NoProductWhenShopDeleted ==
    [][ \A t \in TaskIds :
          ( /\ tasks[t].op = "deleteShop"
            /\ tasks[t].pc = "checking"
            /\ tasks'[t].pc = "settled" /\ tasks'[t].seq > 0 )
          => \A i \in Indexes("products") :
                Docs("products")[i].shopId # tasks[t].id ]_vars

\* C25: the shopId of every product document is the id of a document of the
\* shops list.
C25_ShopIdReferencesShop ==
    \A i \in Indexes("products") :
        Docs("products")[i].shopId \in Ids(Docs("shops"))

\* C26: getById(id) of a stored record returns the record, also when the
\* gateway's read or update fails inside the view-count step.
C26_ViewFailureSwallowed ==
    [][ \A c \in Collections :
          ( /\ IsCall
            /\ ret'.op = GetById[c]
            /\ findIndex(Docs(c), ret'.id) # 0 )
          => /\ ret'.err = NoError
             /\ ret'.val = read(Docs(c), ret'.id) ]_vars

\* getProductById has returned product '1' although the update of its view
\* count failed: no view is recorded.
C26_Witness ==
    /\ ret.op = "getProductById" /\ ret.id = "1" /\ ret.arg = "update"
    /\ ret.err = NoError
    /\ ret.val.id = "1" /\ ret.val.name = demoProducts[1].name
    /\ ~Has(Docs("products")[1], "stats.views")

\* C27: a successful create appends one document under an id that no
\* document of the list had, whatever id the caller's data carried, and
\* leaves every document that was stored as it was.
C27_CreateAppendsFreshId ==
    [][ \A c \in Collections :
          ( IsCall /\ ret'.op = CreateOps[c] /\ ret'.err = NoError ) =>
            LET n == Len(Docs(c))
            IN  /\ Len(localStorage'[c]) = n + 1
                /\ \A i \in 1..n : localStorage'[c][i] = Docs(c)[i]
                /\ localStorage'[c][n + 1].id = ret'.val
                /\ ret'.val \notin Ids(Docs(c))
                /\ \A d \in Collections \ {c} : localStorage'[d] = Docs(d) ]_vars

\* createShop has stored a third shop for data that carried the id of demo
\* shop '1', under another id, and demo shop '1' is as it was.
C27_Witness ==
    /\ ret.op = "createShop" /\ ret.err = NoError
    /\ Has(ret.arg, "id") /\ ret.arg.id = "1"
    /\ Len(Docs("shops")) = 3
    /\ Docs("shops")[3].id = ret.val /\ ret.val # "1"
    /\ Docs("shops")[3].name = ret.arg.name
    /\ Docs("shops")[1] = demoShops[1]

\* The listing and derivation operations.
ReadOps == {"getShops", "getProducts", "getOffers", "searchShops",
            "searchProducts", "compareProducts", "getShopStats",
            "getExpiringOffers", "getExpiredOffers", "getLowStockProducts",
            "getOutOfStockProducts"}

TelemetryKeys == {"stats.views", "stats.lastViewed", "stats.clicks",
                  "stats.lastClicked"}

\* The telemetry fields of a document, with their values.
Telemetry(doc) == [k \in DOMAIN doc \cap TelemetryKeys |-> doc[k]]

\* C29: a listing or derivation operation leaves the three collections as
\* they were, and a step that changes a view or click field is a getById
\* or a trackOfferClick.
C29_ReadsChangeNothing ==
    [][ /\ ( IsCall /\ ret'.op \in ReadOps ) => localStorage' = localStorage
        /\ ( \E c \in Collections : \E i \in Indexes(c) :
                Telemetry(localStorage'[c][i]) # Telemetry(Docs(c)[i]) )
            => ret'.op \in {"getShopById", "getProductById", "getOfferById",
                            "trackOfferClick"} ]_vars

\* getShopStats has reported on shop '1' after a view of it was recorded,
\* and the store holds that one view still.
C29_Witness ==
    /\ ret.op = "getShopStats" /\ ret.id = "1" /\ ret.err = NoError
    /\ ret.val.totalProducts = 1 /\ ret.val.views = 0
    /\ Has(Docs("shops")[1], "stats.views")
    /\ Docs("shops")[1]["stats.views"] = 1
    /\ Docs("products") = demoProducts /\ Docs("offers") = demoOffers

\* C30: searchShops(query) with a non-empty query returns a list and
\* raises no error, also when a stored shop has a contact without email.
C30_SearchShopsNeverThrows ==
    [][ ( IsCall /\ ret'.op = "searchShops" /\ trim(ret'.arg) # "" )
            => ret'.err = NoError ]_vars

====
